---- MODULE Spec2Model ----
(***************************************************************************)
(* fit_to_json (src/bin/fit_to_json.rs): read each FIT file named on the   *)
(* command line, decode the chained FIT segments it holds, and write them  *)
(* as JSON beside the input, into a directory, or into one named file.     *)
(*                                                                         *)
(* A path is the sequence of its components, each [stem, ext]; ext = ""    *)
(* is a component without extension and <<>> is PathBuf::new().            *)
(* A file's bytes are a sequence over Byte.  The decoder (fitparser's      *)
(* parse_file) is not part of the binary's source; it is modelled by its   *)
(* contract: a segment is one header byte declaring the body length,       *)
(* followed by that many body bytes.                                       *)
(***************************************************************************)
EXTENDS Naturals, Sequences, FiniteSets

\* ------------------------------------------------------------------ bounds
MaxFiles == 2
MaxBufLen == 3

Byte == {0, 1}

RECURSIVE SeqsUpTo(_, _)
SeqsUpTo(S, n) ==
    IF n = 0 THEN {<<>>}
    ELSE LET shorter == SeqsUpTo(S, n - 1)
         IN  shorter \cup {Append(s, x) : s \in {t \in shorter : Len(t) = n - 1}, x \in S}

Last(s) == s[Len(s)]
Front(s) == SubSeq(s, 1, Len(s) - 1)

\* ------------------------------------------------------------------- paths
Comp(stem, ext) == [stem |-> stem, ext |-> ext]

EmptyPath == <<>>

\* The paths the command line names, in turn: d/b, a.fit and d/c.fit.
InputPaths ==
    << <<Comp("d", ""), Comp("b", "")>>,
       <<Comp("a", "fit")>>,
       <<Comp("d", ""), Comp("c", "fit")>> >>

\* The i-th FILE argument.
PathAt(i) == InputPaths[((i - 1) % Len(InputPaths)) + 1]

\* The directories that exist when the program starts.
ExistingDirs == { <<Comp("out", "")>> }

OutputPaths == { <<Comp("out", "")>>, <<Comp("all", "txt")>> }

is_dir(p) == p \in ExistingDirs

\* Path::file_name: the last component, if any.
file_name(p) == IF p = <<>> THEN <<"None">> ELSE <<"Some", Last(p)>>

\* Path::join with a relative one-component path.
join(p, c) == Append(p, c)

\* Path::with_extension: a path without a file name is returned unchanged.
with_extension(p, e) ==
    IF p = <<>> THEN p ELSE [p EXCEPT ![Len(p)] = Comp(p[Len(p)].stem, e)]

\* ----------------------------------------------------------------- decoder
\* The decoded value of one segment.
FitFile(size, data) == [size |-> size, data |-> data]

\* parse_file: decode the segment at the head of the bytes and return the
\* unconsumed remainder with it, or fail.
parse_file(bytes) ==
    IF Len(bytes) = 0 THEN <<"Err", "InvalidHeader">>
    ELSE IF Len(bytes) < 1 + bytes[1] THEN <<"Err", "TruncatedStream">>
    ELSE <<"Ok", SubSeq(bytes, 2 + bytes[1], Len(bytes)),
                 FitFile(bytes[1], SubSeq(bytes, 2, 1 + bytes[1]))>>

\* ------------------------------------------------------------------- JSON
\* serde_json::to_string of one FitFile: a JSON object.
to_string_one(f) == [kind |-> "object", items |-> <<f>>]

\* serde_json::to_string of a slice of FitFiles: a JSON array.
to_string_slice(data) == [kind |-> "array", items |-> data]

\* --------------------------------------------------------- OutputLocation
Inplace == <<"Inplace">>
LocalDirectory(p) == <<"LocalDirectory", p>>
LocalFile(p) == <<"LocalFile", p>>

OutputLocationNew(location) ==
    IF is_dir(location) THEN LocalDirectory(location) ELSE LocalFile(location)

\* Mutant of json_of: the slice is serialized whatever its length.
json_always_array(data) == to_string_slice(data)

\* The JSON text write_json_file serializes.
json_of(data) ==
    IF Len(data) = 1 THEN to_string_one(data[1]) ELSE to_string_slice(data)

\* Mutant of outname_of: the directory is joined with the whole input path
\* instead of its file name.
outname_joins_whole_path(self, filename) ==
    IF self[1] = "Inplace" THEN with_extension(filename, "json")
    ELSE IF self[1] = "LocalDirectory"
         THEN with_extension(self[2] \o filename, "json")
         ELSE self[2]

\* The path write_json_file hands to File::create.
outname_of(self, filename) ==
    IF self[1] = "Inplace" THEN with_extension(filename, "json")
    ELSE IF self[1] = "LocalDirectory"
         THEN with_extension(join(self[2], file_name(filename)[2]), "json")
         ELSE self[2]

\* File::create and write_all either succeed or fail.
IoResults == {"ok", "create_err", "write_err"}

\* One call of write_json_file, with the outcome of its I/O.
write_json_file(self, filename, data, res) ==
    [filename |-> filename, data |-> data,
     outname |-> outname_of(self, filename), j |-> json_of(data), res |-> res]

\* ------------------------------------------------------------------- state
Contents == SeqsUpTo(Byte, MaxBufLen)

\* What opening and reading an input file gives: its bytes, or a failure.
FileData ==
    [content : Contents, fault : {"none"}]
    \cup [content : {<<>>}, fault : {"open", "read"}]

\* An input file: its path, and what opening and reading it gives.
InputFile(path, d) == [path |-> path, content |-> d.content, fault |-> d.fault]

VARIABLES
    files,        \* opt.files
    output,       \* opt.output
    output_loc, collect_all,
    pc,           \* main's position
    idx,          \* number of files the for loop has taken
    buffer, remaining, fit_data,
    writes,       \* the calls of write_json_file so far
    panic,        \* which unwrap panicked
    parse_log,    \* history: the inputs of the parse_file calls on this file
    fit_mark      \* history: Len(fit_data) when this file was read

vars == <<files, output, output_loc, collect_all, pc, idx, buffer, remaining,
          fit_data, writes, panic, parse_log, fit_mark>>

cli == <<files, output, output_loc, collect_all>>

\* main, lines 61-72.
output_loc_of(out) ==
    IF out[1] = "None" THEN Inplace ELSE OutputLocationNew(out[2])

collect_all_of(loc) == loc[1] = "LocalFile"

Init ==
    /\ \E d \in SeqsUpTo(FileData, MaxFiles) :
          files = [i \in 1..Len(d) |-> InputFile(PathAt(i), d[i])]
    /\ output \in {<<"None">>} \cup {<<"Some", p>> : p \in OutputPaths}
    /\ output_loc = output_loc_of(output)
    /\ collect_all = collect_all_of(output_loc)
    /\ pc = "loop"
    /\ idx = 0
    /\ buffer = <<>>
    /\ remaining = <<>>
    /\ fit_data = <<>>
    /\ writes = <<>>
    /\ panic = "none"
    /\ parse_log = <<>>
    /\ fit_mark = 0

file == files[idx + 1]

Panic(why) ==
    /\ pc' = "panicked"
    /\ panic' = why

\* File::open(&file).unwrap()
OpenFile ==
    /\ pc = "loop" /\ idx < Len(files)
    /\ file.fault # "open"
    /\ pc' = "opened"
    /\ UNCHANGED <<cli, idx, buffer, remaining, fit_data, writes, panic,
                   parse_log, fit_mark>>

OpenFail ==
    /\ pc = "loop" /\ idx < Len(files)
    /\ file.fault = "open"
    /\ Panic("open")
    /\ UNCHANGED <<cli, idx, buffer, remaining, fit_data, writes,
                   parse_log, fit_mark>>

\* f.read_to_end(&mut buffer).unwrap(); remaining = &buffer
ReadFile ==
    /\ pc = "opened"
    /\ file.fault # "read"
    /\ buffer' = buffer \o file.content
    /\ remaining' = buffer'
    /\ parse_log' = <<>>
    /\ fit_mark' = Len(fit_data)
    /\ pc' = "parse"
    /\ UNCHANGED <<cli, idx, fit_data, writes, panic>>

ReadFail ==
    /\ pc = "opened"
    /\ file.fault = "read"
    /\ Panic("read")
    /\ UNCHANGED <<cli, idx, buffer, remaining, fit_data, writes,
                   parse_log, fit_mark>>

\* Mutant of ParseSegment: the decoded segment is put in front of fit_data.
ParseSegmentPrepend ==
    /\ pc = "parse" /\ Len(remaining) > 0
    /\ LET r == parse_file(remaining)
       IN  /\ r[1] = "Ok"
           /\ remaining' = r[2]
           /\ fit_data' = <<r[3]>> \o fit_data
    /\ parse_log' = Append(parse_log, remaining)
    /\ UNCHANGED <<cli, pc, idx, buffer, writes, panic, fit_mark>>

\* Mutant of ParseSegment: remaining is not advanced past the segment.
ParseSegmentStuck ==
    /\ pc = "parse" /\ Len(remaining) > 0
    /\ LET r == parse_file(remaining)
       IN  /\ r[1] = "Ok"
           /\ fit_data' = Append(fit_data, r[3])
    /\ parse_log' = Append(parse_log, remaining)
    /\ UNCHANGED <<cli, pc, idx, buffer, remaining, writes, panic, fit_mark>>

\* One iteration of the while loop whose parse_file call succeeds.
ParseSegment ==
    /\ pc = "parse" /\ Len(remaining) > 0
    /\ LET r == parse_file(remaining)
       IN  /\ r[1] = "Ok"
           /\ remaining' = r[2]
           /\ fit_data' = Append(fit_data, r[3])
    /\ parse_log' = Append(parse_log, remaining)
    /\ UNCHANGED <<cli, pc, idx, buffer, writes, panic, fit_mark>>

\* Mutant of ParseFail: the failed call's header byte is skipped.
ParseFailConsumes ==
    /\ pc = "parse" /\ Len(remaining) > 0
    /\ parse_file(remaining)[1] = "Err"
    /\ parse_log' = Append(parse_log, remaining)
    /\ remaining' = Tail(remaining)
    /\ Panic("decode")
    /\ UNCHANGED <<cli, idx, buffer, fit_data, writes, fit_mark>>

\* One iteration of the while loop whose parse_file call fails.
ParseFail ==
    /\ pc = "parse" /\ Len(remaining) > 0
    /\ parse_file(remaining)[1] = "Err"
    /\ parse_log' = Append(parse_log, remaining)
    /\ Panic("decode")
    /\ UNCHANGED <<cli, idx, buffer, remaining, fit_data, writes, fit_mark>>

\* Mutant of WriteFile: fit_data is not cleared after the write.
WriteFileNoClear ==
    /\ pc = "parse" /\ Len(remaining) = 0
    /\ ~collect_all
    /\ \E res \in IoResults :
        /\ writes' = Append(writes,
                            write_json_file(output_loc, file.path, fit_data, res))
        /\ IF res = "ok"
           THEN /\ buffer' = <<>>
                /\ idx' = idx + 1
                /\ pc' = "loop"
                /\ UNCHANGED <<panic, fit_data>>
           ELSE /\ Panic(res)
                /\ UNCHANGED <<fit_data, buffer, idx>>
    /\ UNCHANGED <<cli, remaining, parse_log, fit_mark>>

\* The while loop is over and !collect_all: write this file's data, clear.
WriteFile ==
    /\ pc = "parse" /\ Len(remaining) = 0
    /\ ~collect_all
    /\ \E res \in IoResults :
        /\ writes' = Append(writes,
                            write_json_file(output_loc, file.path, fit_data, res))
        /\ IF res = "ok"
           THEN /\ fit_data' = <<>>
                /\ buffer' = <<>>
                /\ idx' = idx + 1
                /\ pc' = "loop"
                /\ UNCHANGED panic
           ELSE /\ Panic(res)
                /\ UNCHANGED <<fit_data, buffer, idx>>
    /\ UNCHANGED <<cli, remaining, parse_log, fit_mark>>

\* Mutant of NextFile: the data collected so far is written after each file.
NextFileFlush ==
    /\ pc = "parse" /\ Len(remaining) = 0
    /\ collect_all
    /\ writes' = Append(writes,
                        write_json_file(output_loc, EmptyPath, fit_data, "ok"))
    /\ buffer' = <<>>
    /\ idx' = idx + 1
    /\ pc' = "loop"
    /\ UNCHANGED <<cli, remaining, fit_data, panic, parse_log, fit_mark>>

\* The while loop is over and collect_all: keep the data, clear the buffer.
NextFile ==
    /\ pc = "parse" /\ Len(remaining) = 0
    /\ collect_all
    /\ buffer' = <<>>
    /\ idx' = idx + 1
    /\ pc' = "loop"
    /\ UNCHANGED <<cli, remaining, fit_data, writes, panic, parse_log, fit_mark>>

\* After the for loop, collect_all: write the data of all files.
WriteAll ==
    /\ pc = "loop" /\ idx = Len(files)
    /\ collect_all
    /\ \E res \in IoResults :
        /\ writes' = Append(writes,
                            write_json_file(output_loc, EmptyPath, fit_data, res))
        /\ IF res = "ok"
           THEN pc' = "done" /\ UNCHANGED panic
           ELSE Panic(res)
    /\ UNCHANGED <<cli, idx, buffer, remaining, fit_data, parse_log, fit_mark>>

\* After the for loop, !collect_all: main returns.
Finish ==
    /\ pc = "loop" /\ idx = Len(files)
    /\ ~collect_all
    /\ pc' = "done"
    /\ UNCHANGED <<cli, idx, buffer, remaining, fit_data, writes, panic,
                   parse_log, fit_mark>>

Next ==
    \/ OpenFile
    \/ OpenFail
    \/ ReadFile
    \/ ReadFail
    \/ ParseSegment
    \/ ParseFail
    \/ WriteFile
    \/ NextFile
    \/ WriteAll
    \/ Finish

Spec == Init /\ [][Next]_vars

\* main runs to its end or to a panic: no step is ever withheld.
FairSpec == Spec /\ WF_vars(Next)

\* ------------------------------------------------- what the claims refer to
RECURSIVE Concat(_)
Concat(ss) == IF ss = <<>> THEN <<>> ELSE Head(ss) \o Concat(Tail(ss))

\* An independently valid segment: a header declaring its body's length.
ValidSegments == {s \in Contents : Len(s) >= 1 /\ Len(s) = 1 + s[1]}

\* The chained buffers: concatenations of valid segments.
Chains == {c \in SeqsUpTo(ValidSegments, MaxBufLen) : Len(Concat(c)) <= MaxBufLen}

Decoded(seg) == FitFile(seg[1], Tail(seg))
Encoded(f) == <<f.size>> \o f.data

Decodable(bytes) == \E c \in Chains : Concat(c) = bytes
ChainOf(bytes) == CHOOSE c \in Chains : Concat(c) = bytes

\* File i opens, reads and decodes without error.
Good(i) == files[i].fault = "none" /\ Decodable(files[i].content)

\* The segments of file i, decoded, in the order they lie in the file.
SegmentsOf(i) ==
    LET c == ChainOf(files[i].content) IN [k \in 1..Len(c) |-> Decoded(c[k])]

\* The segments of files 1..n, in input order.
RECURSIVE SegmentsUpTo(_)
SegmentsUpTo(n) == IF n = 0 THEN <<>> ELSE SegmentsUpTo(n - 1) \o SegmentsOf(n)

NoOutputOption == output[1] = "None"
DirectoryMode == output[1] = "Some" /\ output[2] \in ExistingDirs
ExplicitFileMode == output[1] = "Some" /\ output[2] \notin ExistingDirs

InputFailed == pc = "panicked" /\ panic \in {"open", "read", "decode"}
WriteFailed == pc = "panicked" /\ panic \in {"create_err", "write_err"}

\* The file name of path F with its extension replaced by json.
JsonName(F) == Comp(Last(F).stem, "json")

\* C1: every path handed to File::create follows the placement rule of the
\* run's mode: without --output, the input path with its extension replaced
\* by json; with --output an existing directory D, D/<file name of the input>
\* with the extension replaced by json; with any other --output, that path.
C1_OutputPlacement ==
    \A k \in 1..Len(writes) :
        LET w == writes[k]
            F == w.filename
        IN  /\ ~ExplicitFileMode => F = files[k].path
            /\ NoOutputOption => w.outname = Append(Front(F), JsonName(F))
            /\ DirectoryMode => w.outname = Append(output[2], JsonName(F))
            /\ ExplicitFileMode => w.outname = output[2]

\* d/b written into the directory out, as out/b.json.
C1_Witness ==
    /\ DirectoryMode
    /\ \E k \in 1..Len(writes) :
          /\ writes[k].filename = <<Comp("d", ""), Comp("b", "")>>
          /\ writes[k].outname = <<Comp("out", ""), Comp("b", "json")>>

\* C2: only the explicit-file mode aggregates: there write_json_file is
\* called once, after the last input, with the segments of all inputs in
\* input order; in the other modes it is called once per input, right after
\* that input is decoded, with that input's segments only; buffer (and, in
\* the per-input modes, fit_data) is empty at the start of every iteration.
C2_AggregateOnlyExplicitFile ==
    /\ pc \in {"loop", "opened"} => buffer = <<>> /\ (~ExplicitFileMode => fit_data = <<>>)
    /\ ExplicitFileMode =>
          IF pc = "done" \/ WriteFailed
          THEN /\ idx = Len(files)
               /\ Len(writes) = 1
               /\ writes[1].j.items = SegmentsUpTo(Len(files))
          ELSE writes = <<>>
    /\ ~ExplicitFileMode =>
          /\ Len(writes) = IF WriteFailed THEN idx + 1 ELSE idx
          /\ \A k \in 1..Len(writes) :
                /\ writes[k].filename = files[k].path
                /\ writes[k].j.items = SegmentsOf(k)
          /\ pc = "done" => Len(writes) = Len(files)

\* Two inputs holding segments, aggregated into one output.
C2_Witness ==
    /\ ExplicitFileMode /\ pc = "done" /\ Len(files) = 2
    /\ SegmentsOf(1) # <<>> /\ SegmentsOf(2) # <<>>
    /\ SegmentsOf(1) # SegmentsOf(2)
    /\ Len(writes) = 1

\* C3: with two or more inputs in the explicit-file mode the JSON written is
\* an array with one element per decoded segment of every input.
C3_ArrayForMultipleFiles ==
    (ExplicitFileMode /\ Len(files) >= 2) =>
        \A k \in 1..Len(writes) :
            /\ writes[k].j.kind = "array"
            /\ Len(writes[k].j.items) = Len(SegmentsUpTo(Len(files)))

\* C4: on a buffer that is the concatenation of N valid segments the while
\* loop calls parse_file once per segment, each call on the remainder the
\* previous one returned, appends the N segments to fit_data in order, never
\* fails, and is over exactly when the N calls are made.
C4_ChainedLoop ==
    \A c \in Chains :
        (/\ idx < Len(files)
         /\ pc = "parse" \/ (pc = "panicked" /\ panic \notin {"open", "read"})
         /\ files[idx + 1].content = Concat(c))
        => LET k == Len(parse_log)
               N == Len(c)
           IN  /\ panic # "decode"
               /\ buffer = Concat(c)
               /\ k <= N
               /\ remaining = Concat(SubSeq(c, k + 1, N))
               /\ Len(remaining) = 0 <=> k = N
               /\ Len(fit_data) = fit_mark + k
               /\ \A j \in 1..k :
                     /\ parse_log[j] = Concat(SubSeq(c, j, N))
                     /\ fit_data[fit_mark + j] = Decoded(c[j])

\* A file of two different segments, both decoded.
C4_Witness ==
    /\ pc = "parse" /\ Len(remaining) = 0
    /\ Len(parse_log) = 2
    /\ fit_data[fit_mark + 1] # fit_data[fit_mark + 2]

\* Some write_json_file call was given all the segments of file i.
Written(i) ==
    \E k \in 1..Len(writes) :
        /\ writes[k].res = "ok"
        /\ IF ExplicitFileMode THEN writes[k].j.items = SegmentsUpTo(Len(files))
           ELSE writes[k].filename = files[i].path /\ writes[k].j.items = SegmentsOf(i)

\* C5: when one input fails to open, read or decode, the inputs after it are
\* still decoded and their outputs written.
C5_OnlyOffendingFileSkipped ==
    InputFailed => \A i \in (idx + 2)..Len(files) : Good(i) => Written(i)

\* C6: a failed parse_file call leaves remaining as it was and appends
\* nothing to fit_data; the segments of the earlier successful calls on the
\* buffer (and of the earlier files) are still there, in order.
C6_FailedDecodeConsumesNothing ==
    (pc = "panicked" /\ panic = "decode") =>
        LET k == Len(parse_log)
        IN  /\ k >= 1
            /\ parse_log[1] = buffer
            /\ remaining = parse_log[k]
            /\ Len(remaining) < 1 + remaining[1]
            /\ Len(fit_data) = fit_mark + k - 1
            /\ \A j \in 1..(k - 1) :
                  parse_log[j] = Encoded(fit_data[fit_mark + j]) \o parse_log[j + 1]
            /\ SubSeq(fit_data, 1, fit_mark) =
                  IF ExplicitFileMode THEN SegmentsUpTo(idx) ELSE <<>>

\* A segment is decoded, then the next one is truncated.
C6_Witness ==
    /\ pc = "panicked" /\ panic = "decode"
    /\ Len(parse_log) = 2
    /\ Len(fit_data) = fit_mark + 1

\* An iteration of the while loop: a parse_file call.
DecoderCall == pc = "parse" /\ parse_log' # parse_log

\* C7: the while loop ends: every iteration calls parse_file on a non-empty
\* remaining and either panics or leaves a strictly shorter remaining; an
\* empty buffer gives no call and no segment; the loop is always left.
C7_LoopTerminates ==
    /\ [][DecoderCall =>
            /\ Len(remaining) > 0
            /\ parse_log' = Append(parse_log, remaining)
            /\ \/ pc' = "parse" /\ Len(remaining') < Len(remaining)
               \/ pc' = "panicked" /\ panic' = "decode"]_vars
    /\ [](pc = "parse" =>
            /\ \A j \in 1..Len(parse_log) : Len(parse_log[j]) > 0
            /\ buffer = <<>> => parse_log = <<>> /\ Len(fit_data) = fit_mark)
    /\ (pc = "parse") ~> (pc # "parse")

\* The loop is over after three iterations.
C7_Witness ==
    /\ pc = "loop" /\ idx >= 1
    /\ Len(parse_log) = 3

C9_OutputsAtAbort ==
    /\ InputFailed =>
          IF ExplicitFileMode THEN writes = <<>>
          ELSE /\ Len(writes) = idx
               /\ \A k \in 1..idx :
                     /\ writes[k].res = "ok"
                     /\ writes[k].filename = files[k].path
                     /\ writes[k].data = SegmentsOf(k)
    /\ \A k \in 1..Len(writes) :
          writes[k].data = IF ExplicitFileMode THEN SegmentsUpTo(Len(files))
                           ELSE SegmentsOf(k)

\* The second input fails to decode after its first segment; the first
\* input's output is written.
C9_Witness ==
    /\ pc = "panicked" /\ panic = "decode"
    /\ ~ExplicitFileMode
    /\ idx = 1 /\ Len(writes) = 1
    /\ Len(fit_data) = 1

====
